---- MODULE Spec2Model ----
(***************************************************************************)
(* USSD session reconciliation of temba/ussd/models.py: the session store  *)
(* (USSDQuerySet), the status state machine (mark_ending, close) and the   *)
(* two entry points handle_incoming and handle_interrupt, run by           *)
(* concurrent request processes.  Every database statement is one atomic   *)
(* step; a handler is a chain of such steps, so two handlers interleave    *)
(* between their statements.                                               *)
(***************************************************************************)
EXTENDS Integers, Sequences, FiniteSets, TLC

VARIABLES sessions, proc, returned, lastOp, ncalls, npush

vars == <<sessions, proc, returned, lastOp, ncalls, npush>>

(* ------------------------------ bounds --------------------------------- *)

\* handler calls (handle_incoming + handle_interrupt) started in one run
MaxCalls == 2

\* server-initiated (push) sessions opened in one run
MaxPush == 1

(* -------------------------- input domains ------------------------------ *)

Procs == {"p1", "p2"}

ProcRank(p) == IF p = "p1" THEN 1 ELSE 2

Contacts == {"k1"}

Channels == {"c1"}

ExtIds == {"e1", "e2"}

Flows == {"F"}

Contents == {"1"}

Dates == {"d1"}

\* the value timezone.now() yields
Now == "now"

\* Python's None
None == "None"

(* ---------------------- ChannelSession constants ----------------------- *)

TRIGGERED == "T"

IN_PROGRESS == "I"

INTERRUPTED == "X"

ENDING == "E"

COMPLETED == "D"

INITIATED == "A"

DONE == {COMPLETED, INTERRUPTED}

USSD_PULL == "I_dir"

USSD_PUSH == "O_dir"

\* channel.org
ChannelOrg(channel) == "org_" \o channel

(* ------------------------------ records -------------------------------- *)

FieldNames == {"external_id", "contact", "channel", "org", "direction",
               "status", "started_on", "ended_on"}

\* a row as the model's field defaults leave it before create() fills it
BlankSession == [external_id |-> None, contact |-> None, channel |-> None,
                 org |-> None, direction |-> None, status |-> None,
                 started_on |-> None, ended_on |-> None]

NoEvent == [contact |-> None, channel |-> None, external_id |-> None,
            status |-> None, content |-> None, date |-> None, async |-> TRUE]

Events == [contact : Contacts, channel : Channels, external_id : ExtIds,
           status : {None, TRIGGERED, INTERRUPTED},
           content : Contents, date : Dates, async : BOOLEAN]

\* a request process: where it is in its handler, the handler's arguments and
\* locals (session is the row's primary key, obj the object in memory)
IdleProc == [pc |-> "idle", op |-> None, ev |-> NoEvent, trigger |-> None,
             sid |-> 0, obj |-> BlankSession]

\* the handler call that returned in the last step: its arguments, what it
\* returned (out: "none", "session" or "error" for an exception; sid the
\* session), whether it created the session, and what it handed to the flow
\* engine (disp: "start" or "message"; text the message text; flow the flow
\* started; mode the *_async or *_sync method called; msgs whether the
\* messages produced are returned; path "push" for a resumed push session,
\* "match" for a session matched by external id and "create" for a new one)
NoReturn == [op |-> None, ev |-> NoEvent, trigger |-> None, out |-> None,
             sid |-> 0, created |-> FALSE, disp |-> None, text |-> None,
             flow |-> None, mode |-> None, msgs |-> FALSE, path |-> None]

\* the status-transition call (mark_ending or close) made in the last step: the
\* session, the object's status before the
\* call, the number of saves and the fields saved, the rows' changed fields;
\* for mark_ending also whether the call before it was a mark_ending of the
\* same session (again) and the same facts about that call
NoOp == [op |-> None, sid |-> 0, pre |-> None, wrote |-> 0, flds |-> {},
         changed |-> {}, again |-> FALSE, ppre |-> None, pwrote |-> 0,
         pchanged |-> {}]

ObserverOff == [NoOp EXCEPT !.op = "off"]

(* --------------------------- USSDQuerySet ------------------------------ *)

Ids(store) == 1..Len(store)

Min(S) == CHOOSE x \in S : \A y \in S : x <= y

\* QuerySet.first(): the row of lowest primary key, 0 for no row
First(S) == IF S = {} THEN 0 ELSE Min(S)

\* mutant: the push lookup filters on the wrong status constant
get_initiated_push_session_Triggered(store, contact) ==
    First({i \in Ids(store) : /\ store[i].direction = USSD_PUSH
                              /\ store[i].status = TRIGGERED
                              /\ store[i].contact = contact})

get_initiated_push_session(store, contact) ==
    First({i \in Ids(store) : /\ store[i].direction = USSD_PUSH
                              /\ store[i].status = INITIATED
                              /\ store[i].contact = contact})

\* mutant: the lookup by external id without exclude(status__in=DONE)
get_session_by_external_id_AnyStatus(store, session_id) ==
    First({i \in Ids(store) : store[i].external_id = session_id})

get_session_by_external_id(store, session_id) ==
    First({i \in Ids(store) : /\ store[i].status \notin DONE
                              /\ store[i].external_id = session_id})

\* mutant: the locking lookup without exclude(status__in=DONE)
LockedLookup_AnyStatus(store, external_id) ==
    {i \in Ids(store) : store[i].external_id = external_id}

\* the rows of select_for_update().exclude(status__in=DONE).get(external_id=..)
LockedLookup(store, external_id) ==
    {i \in Ids(store) : /\ store[i].status \notin DONE
                        /\ store[i].external_id = external_id}

\* Model.save(update_fields=fields): the named fields of the object reach the row
Save(row, obj, fields) ==
    [f \in DOMAIN row |-> IF f \in fields THEN obj[f] ELSE row[f]]

\* setattr over a dict of defaults
Patch(obj, defaults) ==
    [f \in DOMAIN obj |-> IF f \in DOMAIN defaults THEN defaults[f] ELSE obj[f]]

\* the fields in which two rows differ
Diff(a, b) == {f \in DOMAIN a : a[f] # b[f]}

(* ------------------------- session state machine ----------------------- *)

\* mutant: mark_ending without its status test
mark_ending_Unguarded(obj) ==
    [obj |-> [obj EXCEPT !.status = ENDING], saved |-> <<{"status"}>>]

\* mutant: close that never completes a session
close_AlwaysInterrupted(obj, now) ==
    [obj |-> [obj EXCEPT !.status = INTERRUPTED, !.ended_on = now],
     saved |-> <<{"status", "ended_on"}>>]

\* a method's effect: the object after the call and the update_fields of each
\* save() it made, in order
mark_ending(obj) ==
    IF obj.status # ENDING
      THEN [obj |-> [obj EXCEPT !.status = ENDING], saved |-> <<{"status"}>>]
      ELSE [obj |-> obj, saved |-> <<>>]

close(obj, now) ==
    [obj |-> [obj EXCEPT !.status = IF obj.status = ENDING THEN COMPLETED
                                                         ELSE INTERRUPTED,
                         !.ended_on = now],
     saved |-> <<{"status", "ended_on"}>>]

\* the row after the saves of one method call (each method saves at most once)
Persist(row, res) ==
    IF res.saved = <<>> THEN row ELSE Save(row, res.obj, res.saved[1])

\* every field any of the saves named
SavedFields(res) == UNION {res.saved[n] : n \in 1..Len(res.saved)}

(* ----------------------------- handle_incoming ------------------------- *)

\* mutant: the INTERRUPTED branch sets the status without ended_on
Defaults_NoEndedOn(ev) ==
    LET base == [channel |-> ev.channel, contact |-> ev.contact,
                 org |-> ChannelOrg(ev.channel)]
    IN  IF ev.status = TRIGGERED
          THEN base @@ [started_on |-> ev.date, direction |-> USSD_PULL,
                        status |-> ev.status]
        ELSE IF ev.status = INTERRUPTED
          THEN base @@ [status |-> ev.status]
        ELSE base @@ [status |-> IN_PROGRESS]

\* the defaults dict of handle_incoming after the status branch
Defaults(ev) ==
    LET base == [channel |-> ev.channel, contact |-> ev.contact,
                 org |-> ChannelOrg(ev.channel)]
    IN  IF ev.status = TRIGGERED
          THEN base @@ [started_on |-> ev.date, direction |-> USSD_PULL,
                        status |-> ev.status]
        ELSE IF ev.status = INTERRUPTED
          THEN base @@ [ended_on |-> ev.date, status |-> ev.status]
        ELSE base @@ [status |-> IN_PROGRESS]

\* mutant: the external id is left out of the defaults
DefaultsWithId_NoId(ev) == Defaults(ev)

\* defaults.update(dict(external_id=external_id))
DefaultsWithId(ev) == Defaults(ev) @@ [external_id |-> ev.external_id]

\* a request is served by the first idle worker
FirstIdle(p) == \A q \in Procs : proc[q].pc = "idle" => ProcRank(p) <= ProcRank(q)

\* a row is locked from select_for_update().get() to the save() that follows
LockedBy(i) == {p \in Procs : proc[p].pc = "patch" /\ proc[p].sid = i}

\* mutant: the lookup made without select_for_update()
Writable_NoLock(p, i) == TRUE

Writable(p, i) == LockedBy(i) \subseteq {p}

\* mutant: the text taken from the content as it is
Text_Raw(content) == content

\* text=content or ''
Text(content) == IF content = None THEN "" ELSE content

\* the status-transition observer keeps a record only where it is switched on
Observe(rec) == IF lastOp.op = "off" THEN lastOp ELSE rec

\* a return without a session: (None, None), None, or an exception
ReturnsNothing(me, out) ==
    [NoReturn EXCEPT !.op = me.op, !.ev = me.ev, !.trigger = me.trigger,
                     !.out = out]

\* start_session_async / start_session_sync: the opening message is created
\* from None and the flow started with it
StartSession(ret, flow) ==
    [ret EXCEPT !.disp = "start", !.text = Text(None), !.flow = flow]

\* handle_session_async / handle_session_sync without start: the content is
\* recorded as an incoming message
HandleSession(ret, content) ==
    [ret EXCEPT !.disp = "message", !.text = Text(content)]

\* mutant: the dispatch ignores the async argument
Mode_AlwaysAsync(async) == "async"

\* if async: ..._async(...) else: ..._sync(...)
Mode(async) == IF async THEN "async" ELSE "sync"

\* mutant: the flow is started whenever a trigger was found, created or not
DispatchIncoming_StartOnTrigger(me, sid, created) ==
    LET ret == [NoReturn EXCEPT !.op = me.op, !.ev = me.ev,
                   !.trigger = me.trigger, !.out = "session", !.sid = sid,
                   !.created = created, !.mode = Mode(me.ev.async),
                   !.msgs = ~me.ev.async,
                   !.path = IF created THEN "create"
                            ELSE IF me.pc = "push_save" THEN "push"
                            ELSE "match"]
    IN  IF me.trigger # None
          THEN StartSession(ret, me.trigger)
          ELSE HandleSession(ret, me.ev.content)

\* lines 172-185: the dispatch and the return of handle_incoming; only the
\* synchronous mode returns the messages produced.  The dispatch reads and
\* writes no session row, so it is taken in the step of the save or create it
\* follows.
DispatchIncoming(me, sid, created) ==
    LET ret == [NoReturn EXCEPT !.op = me.op, !.ev = me.ev,
                   !.trigger = me.trigger, !.out = "session", !.sid = sid,
                   !.created = created, !.mode = Mode(me.ev.async),
                   !.msgs = ~me.ev.async,
                   !.path = IF created THEN "create"
                            ELSE IF me.pc = "push_save" THEN "push"
                            ELSE "match"]
    IN  IF created /\ me.trigger # None
          THEN StartSession(ret, me.trigger)
          ELSE HandleSession(ret, me.ev.content)

\* mutant: the missing trigger ends the call in synchronous mode only
NoMatchingTrigger_SyncOnly(ev, trigger) ==
    ev.status = TRIGGERED /\ trigger = None /\ ~ev.async

\* lines 131-134: a TRIGGERED hint for which no trigger is found ends the call
NoMatchingTrigger(ev, trigger) == ev.status = TRIGGERED /\ trigger = None

\* lines 107-146: subscriber and defaults set up, the trigger looked up for a
\* TRIGGERED hint, then the lookup of an initiated push session
HandleIncoming(p, ev, flow) ==
    /\ proc[p].pc = "idle"
    /\ FirstIdle(p)
    /\ ncalls < MaxCalls
    /\ ev.status = TRIGGERED \/ flow = None
    /\ LET trigger == IF ev.status = TRIGGERED THEN flow ELSE None
           push == get_initiated_push_session(sessions, ev.contact)
           call == [IdleProc EXCEPT !.op = "handle_incoming", !.ev = ev,
                                    !.trigger = trigger]
       IN  IF NoMatchingTrigger(ev, trigger)
             THEN /\ proc' = proc
                  /\ returned' = ReturnsNothing(call, "none")
           ELSE IF push # 0
             THEN /\ proc' = [proc EXCEPT ![p] =
                        [call EXCEPT !.pc = "push_save", !.sid = push,
                                     !.obj = sessions[push]]]
                  /\ returned' = NoReturn
           ELSE /\ proc' = [proc EXCEPT ![p] = [call EXCEPT !.pc = "get"]]
                /\ returned' = NoReturn
    /\ ncalls' = ncalls + 1
    /\ lastOp' = Observe(NoOp)
    /\ UNCHANGED <<sessions, npush>>

\* mutant: the drop rule tests for a trigger instead of for none
DropsUnmatched_WithTrigger(me) == ~me.ev.async /\ me.trigger # None

\* line 160: an unmatched event is dropped in synchronous mode without trigger
DropsUnmatched(me) == ~me.ev.async /\ me.trigger = None

\* lines 148-150 and 154-161: the locking lookup by external id; get() raises
\* DoesNotExist for no row and MultipleObjectsReturned for several
LockedGet(p) ==
    /\ proc[p].pc = "get"
    /\ LET me == proc[p]
           found == LockedLookup(sessions, me.ev.external_id)
       IN  \/ /\ Cardinality(found) = 1
              /\ \E i \in found :
                    /\ Writable(p, i)
                    /\ proc' = [proc EXCEPT ![p] = [me EXCEPT !.pc = "patch",
                                          !.sid = i, !.obj = sessions[i]]]
              /\ returned' = NoReturn
           \/ /\ found = {}
              /\ IF DropsUnmatched(me)
                   THEN /\ proc' = [proc EXCEPT ![p] = IdleProc]
                        /\ returned' = ReturnsNothing(me, "none")
                   ELSE /\ proc' = [proc EXCEPT ![p] = [me EXCEPT !.pc = "create"]]
                        /\ returned' = NoReturn
           \/ /\ Cardinality(found) > 1
              /\ proc' = [proc EXCEPT ![p] = IdleProc]
              /\ returned' = ReturnsNothing(me, "error")
    /\ lastOp' = Observe(NoOp)
    /\ UNCHANGED <<sessions, ncalls, npush>>

\* lines 151-153: the defaults set on the locked session, which is saved whole
PatchLocked(p) ==
    /\ proc[p].pc = "patch"
    /\ LET me == proc[p]
           obj == Patch(me.obj, Defaults(me.ev))
       IN  /\ sessions' = [sessions EXCEPT ![me.sid] = Save(@, obj, FieldNames)]
           /\ returned' = DispatchIncoming(me, me.sid, FALSE)
    /\ proc' = [proc EXCEPT ![p] = IdleProc]
    /\ lastOp' = Observe(NoOp)
    /\ UNCHANGED <<ncalls, npush>>

\* lines 163-165: no session matched, a new one is created
CreateSession(p) ==
    /\ proc[p].pc = "create"
    /\ LET me == proc[p]
       IN  /\ sessions' = Append(sessions,
                              Patch(BlankSession, DefaultsWithId(me.ev)))
           /\ returned' = DispatchIncoming(me, Len(sessions) + 1, TRUE)
    /\ proc' = [proc EXCEPT ![p] = IdleProc]
    /\ lastOp' = Observe(NoOp)
    /\ UNCHANGED <<ncalls, npush>>

\* lines 166-170: the defaults and the event's external id set on the push
\* session read at line 144, which is saved whole
PushSave(p) ==
    /\ proc[p].pc = "push_save"
    /\ Writable(p, proc[p].sid)
    /\ LET me == proc[p]
           obj == Patch(me.obj, DefaultsWithId(me.ev))
       IN  /\ sessions' = [sessions EXCEPT ![me.sid] = Save(@, obj, FieldNames)]
           /\ returned' = DispatchIncoming(me, me.sid, FALSE)
    /\ proc' = [proc EXCEPT ![p] = IdleProc]
    /\ lastOp' = Observe(NoOp)
    /\ UNCHANGED <<ncalls, npush>>

(* ---------------------------- handle_interrupt ------------------------- *)

\* lines 188-192: the lookup by external id, without a lock
HandleInterrupt(p, session_id, async) ==
    /\ proc[p].pc = "idle"
    /\ FirstIdle(p)
    /\ ncalls < MaxCalls
    /\ LET s == get_session_by_external_id(sessions, session_id)
           call == [IdleProc EXCEPT !.op = "handle_interrupt",
                       !.ev = [NoEvent EXCEPT !.external_id = session_id,
                                              !.async = async]]
       IN  IF s = 0
             THEN /\ proc' = proc
                  /\ returned' = ReturnsNothing(call, "none")
             ELSE /\ proc' = [proc EXCEPT ![p] =
                        [call EXCEPT !.pc = "int_close", !.sid = s,
                                     !.obj = sessions[s]]]
                  /\ returned' = NoReturn
    /\ ncalls' = ncalls + 1
    /\ lastOp' = Observe(NoOp)
    /\ UNCHANGED <<sessions, npush>>

\* line 194: session.close() on the object read by the lookup
InterruptClose(p) ==
    /\ proc[p].pc = "int_close"
    /\ Writable(p, proc[p].sid)
    /\ LET me == proc[p]
           res == close(me.obj, Now)
           row == Persist(sessions[me.sid], res)
       IN  /\ sessions' = [sessions EXCEPT ![me.sid] = row]
           /\ proc' = [proc EXCEPT ![p] = [me EXCEPT !.pc = "int_dispatch",
                                                     !.obj = res.obj]]
           /\ lastOp' = Observe([NoOp EXCEPT !.op = "close", !.sid = me.sid,
                            !.pre = me.obj.status, !.wrote = Len(res.saved),
                            !.flds = SavedFields(res),
                            !.changed = Diff(sessions[me.sid], row)])
    /\ returned' = NoReturn
    /\ UNCHANGED <<ncalls, npush>>

\* lines 195-200: the empty content handed to the flow engine; the session is
\* returned in both modes
InterruptDispatch(p) ==
    /\ proc[p].pc = "int_dispatch"
    /\ LET me == proc[p]
       IN  returned' = HandleSession(
              [NoReturn EXCEPT !.op = me.op, !.ev = me.ev, !.out = "session",
                               !.sid = me.sid, !.mode = Mode(me.ev.async)],
              None)
    /\ proc' = [proc EXCEPT ![p] = IdleProc]
    /\ lastOp' = Observe(NoOp)
    /\ UNCHANGED <<sessions, ncalls, npush>>

(* ------------------------------ collaborators -------------------------- *)

\* the channel opens a server-initiated session for a subscriber
CreatePushSession(contact, channel) ==
    /\ npush < MaxPush
    /\ sessions' = Append(sessions,
          [BlankSession EXCEPT !.contact = contact, !.channel = channel,
                               !.org = ChannelOrg(channel),
                               !.direction = USSD_PUSH, !.status = INITIATED])
    /\ npush' = npush + 1
    /\ lastOp' = Observe(NoOp)
    /\ returned' = NoReturn
    /\ UNCHANGED <<proc, ncalls>>

\* the flow engine marks a live session as ending
FlowMarkEnding(i) ==
    /\ sessions[i].status \notin DONE
    /\ LockedBy(i) = {}
    /\ LET res == mark_ending(sessions[i])
           row == Persist(sessions[i], res)
           again == lastOp.op = "mark_ending" /\ lastOp.sid = i
       IN  /\ sessions' = [sessions EXCEPT ![i] = row]
           /\ lastOp' = Observe(
                 [op |-> "mark_ending", sid |-> i, pre |-> sessions[i].status,
                  wrote |-> Len(res.saved), flds |-> SavedFields(res),
                  changed |-> Diff(sessions[i], row), again |-> again,
                  ppre |-> IF again THEN lastOp.pre ELSE None,
                  pwrote |-> IF again THEN lastOp.wrote ELSE 0,
                  pchanged |-> IF again THEN lastOp.changed ELSE {}])
    /\ returned' = NoReturn
    /\ UNCHANGED <<proc, ncalls, npush>>

\* the flow engine closes a live session
FlowClose(i) ==
    /\ sessions[i].status \notin DONE
    /\ LockedBy(i) = {}
    /\ LET res == close(sessions[i], Now)
           row == Persist(sessions[i], res)
       IN  /\ sessions' = [sessions EXCEPT ![i] = row]
           /\ lastOp' = Observe([NoOp EXCEPT !.op = "close", !.sid = i,
                            !.pre = sessions[i].status,
                            !.wrote = Len(res.saved), !.flds = SavedFields(res),
                            !.changed = Diff(sessions[i], row)])
    /\ returned' = NoReturn
    /\ UNCHANGED <<proc, ncalls, npush>>

(* ------------------------------ specification -------------------------- *)

InitStore ==
    /\ sessions = <<>>
    /\ proc = [p \in Procs |-> IdleProc]
    /\ returned = NoReturn
    /\ ncalls = 0
    /\ npush = 0

Init == InitStore /\ lastOp = ObserverOff

Next ==
    \/ \E p \in Procs, ev \in Events, flow \in Flows \cup {None} :
          HandleIncoming(p, ev, flow)
    \/ \E p \in Procs : LockedGet(p)
    \/ \E p \in Procs : PatchLocked(p)
    \/ \E p \in Procs : CreateSession(p)
    \/ \E p \in Procs : PushSave(p)
    \/ \E p \in Procs, session_id \in ExtIds, async \in BOOLEAN :
          HandleInterrupt(p, session_id, async)
    \/ \E p \in Procs : InterruptClose(p)
    \/ \E p \in Procs : InterruptDispatch(p)
    \/ \E contact \in Contacts, channel \in Channels :
          CreatePushSession(contact, channel)
    \/ \E i \in Ids(sessions) : FlowMarkEnding(i)
    \/ \E i \in Ids(sessions) : FlowClose(i)

Spec == Init /\ [][Next]_vars

\* the same program with the status-transition observer switched on
InitObserved == InitStore /\ lastOp = NoOp

SpecObserved == InitObserved /\ [][Next]_vars

\* the program after one event has created a live session: the store holds
\* the row that handle_incoming creates for an event with external id "e1"
\* that is not dropped (TRIGGERED-hinted, or without hint and asynchronous)
InitResume ==
    /\ \E ev \in Events :
          /\ ev.external_id = "e1"
          /\ ev.status = TRIGGERED \/ (ev.status = None /\ ev.async)
          /\ sessions = <<Patch(BlankSession, DefaultsWithId(ev))>>
    /\ proc = [p \in Procs |-> IdleProc]
    /\ returned = NoReturn
    /\ ncalls = 0
    /\ npush = 0
    /\ lastOp = ObserverOff

SpecResume == InitResume /\ [][Next]_vars

(* ------------------------------- properties ---------------------------- *)

Terminal(i) == sessions[i].status \in {COMPLETED, INTERRUPTED}

\* the sessions in a non-terminal status that carry an external id
ActiveWithId(store, e) ==
    {i \in Ids(store) : /\ store[i].status \notin {COMPLETED, INTERRUPTED}
                        /\ store[i].external_id = e}

\* the sessions in a terminal status that carry an external id
ClosedWithId(store, e) ==
    {i \in Ids(store) : /\ store[i].status \in {COMPLETED, INTERRUPTED}
                        /\ store[i].external_id = e}

\* a subscriber's push sessions in the given statuses
PushSessions(store, contact, statuses) ==
    {i \in Ids(store) : /\ store[i].direction = USSD_PUSH
                        /\ store[i].contact = contact
                        /\ store[i].status \in statuses}

\* the step in which process p starts handle_incoming and goes on past the
\* trigger lookup
StartsIncoming(p) ==
    /\ proc[p].pc = "idle"
    /\ proc'[p].pc # "idle"
    /\ proc'[p].op = "handle_incoming"

\* the step in which process p leaves the program point pc
Leaves(p, pc) == proc[p].pc = pc /\ proc'[p].pc # pc

\* C1: with no push session involved, a session created for an external id is
\* the only non-terminal session with that id: events with the same id that
\* run concurrently create exactly one row, the others resume it.
C1_ExactlyOneRowCreated ==
    (npush = 0 /\ returned.created) =>
        ActiveWithId(sessions, returned.ev.external_id) \subseteq {returned.sid}

\* C2: starting from the empty store and with handle_incoming,
\* handle_interrupt, mark_ending and close alone, every subscriber has at most
\* one session in a non-terminal status.
C2_OneActiveSessionPerSubscriber ==
    npush = 0 =>
        \A i, j \in Ids(sessions) :
            (i # j /\ ~Terminal(i) /\ ~Terminal(j))
                => sessions[i].contact # sessions[j].contact

C4_FreshEventCreates ==
    [][\A p \in Procs :
          (/\ StartsIncoming(p)
           /\ proc'[p].ev.async \/ proc'[p].trigger # None
           /\ ClosedWithId(sessions, proc'[p].ev.external_id) # {}
           /\ ActiveWithId(sessions, proc'[p].ev.external_id) = {})
          => proc'[p].pc # "push_save"]_vars

\* C4 amended: the external-id lookups of handle_incoming and handle_interrupt
\* return no terminal session; when handle_incoming has found no initiated
\* push session and its lookup finds the external id carried by terminal
\* sessions only (and the event is not dropped), it goes on to create, and the
\* create adds one row with that id and leaves every other row unchanged.
C4_TerminalNeverMatched ==
    [][\A p \in Procs :
          /\ proc'[p].pc \in {"patch", "int_close"}
             => /\ proc'[p].obj.status \notin {COMPLETED, INTERRUPTED}
                /\ proc'[p].obj.external_id = proc'[p].ev.external_id
          /\ (/\ Leaves(p, "get")
              /\ proc[p].ev.async \/ proc[p].trigger # None
              /\ ClosedWithId(sessions, proc[p].ev.external_id) # {}
              /\ ActiveWithId(sessions, proc[p].ev.external_id) = {})
             => /\ proc'[p].pc = "create"
                /\ sessions' = sessions
          /\ Leaves(p, "create")
             => /\ Len(sessions') = Len(sessions) + 1
                /\ \A i \in Ids(sessions) : sessions'[i] = sessions[i]
                /\ sessions'[Len(sessions')].external_id = proc[p].ev.external_id
                /\ returned'.created
                /\ returned'.sid = Len(sessions')]_vars

\* C4 witness: a session has just been created with an external id that a
\* terminal session carries too.
C4_Witness ==
    /\ returned.created
    /\ sessions[returned.sid].external_id = returned.ev.external_id
    /\ ClosedWithId(sessions, returned.ev.external_id) \ {returned.sid} # {}

\* C5: a terminal status is final: no step changes the status of a COMPLETED
\* or INTERRUPTED session or clears its ended_on.
C5_TerminalIsFinal ==
    [][\A i \in Ids(sessions) :
          Terminal(i) => /\ sessions'[i].status = sessions[i].status
                         /\ sessions'[i].ended_on # None]_vars

\* C6: close on an object whose status is ENDING stores COMPLETED, on any
\* other non-terminal status INTERRUPTED; it sets ended_on and saves status
\* and ended_on, and nothing else, in one save.
C6_CloseOutcome ==
    lastOp.op = "close" =>
        /\ lastOp.pre \notin {COMPLETED, INTERRUPTED}
        /\ sessions[lastOp.sid].status =
              IF lastOp.pre = ENDING THEN COMPLETED ELSE INTERRUPTED
        /\ sessions[lastOp.sid].ended_on = Now
        /\ lastOp.wrote = 1
        /\ lastOp.flds = {"status", "ended_on"}
        /\ lastOp.changed \subseteq {"status", "ended_on"}

\* C6 witness: an ENDING session has just been closed and is COMPLETED.
C6_Witness ==
    /\ lastOp.op = "close"
    /\ lastOp.pre = ENDING
    /\ sessions[lastOp.sid].status = COMPLETED
    /\ sessions[lastOp.sid].ended_on # None

\* C7 as stated: two mark_ending calls in a row on a session leave it ENDING
\* and make exactly one write between them, which changes the status only.
C7_ExactlyOneWrite ==
    (lastOp.op = "mark_ending" /\ lastOp.again) =>
        /\ sessions[lastOp.sid].status = ENDING
        /\ lastOp.pwrote + lastOp.wrote = 1
        /\ lastOp.pchanged \cup lastOp.changed \subseteq {"status"}

\* C7 amended: two mark_ending calls in a row leave the session ENDING; the
\* second writes nothing, the first writes once exactly when the session was
\* not ENDING already, and a write saves and changes the status field only.
C7_MarkEndingIdempotent ==
    /\ lastOp.op = "mark_ending"
          => /\ sessions[lastOp.sid].status = ENDING
             /\ lastOp.wrote = IF lastOp.pre = ENDING THEN 0 ELSE 1
             /\ lastOp.flds \subseteq {"status"}
             /\ lastOp.changed \subseteq {"status"}
    /\ (lastOp.op = "mark_ending" /\ lastOp.again)
          => /\ lastOp.wrote = 0
             /\ lastOp.changed = {}
             /\ lastOp.pwrote = IF lastOp.ppre = ENDING THEN 0 ELSE 1
             /\ lastOp.pchanged \subseteq {"status"}

\* C7 witness: the second of two mark_ending calls in a row has returned; the
\* first wrote the status, the second nothing.
C7_Witness ==
    /\ lastOp.op = "mark_ending"
    /\ lastOp.again
    /\ lastOp.ppre = IN_PROGRESS
    /\ lastOp.pwrote = 1
    /\ lastOp.wrote = 0
    /\ sessions[lastOp.sid].status = ENDING

C9_UniqueActiveExternalId ==
    \A i, j \in Ids(sessions) :
        (i # j /\ ~Terminal(i) /\ ~Terminal(j) /\ sessions[i].external_id # None)
            => sessions[i].external_id # sessions[j].external_id

\* C10: the external-id lookup of a synchronous call without trigger that
\* matches no non-terminal session ends the call: it returns (None, None),
\* the store is unchanged and nothing is dispatched.
C10_SyncNoTriggerDropped ==
    [][\A p \in Procs :
          (/\ Leaves(p, "get")
           /\ ~proc[p].ev.async
           /\ proc[p].trigger = None
           /\ ActiveWithId(sessions, proc[p].ev.external_id) = {})
          => /\ proc'[p].pc = "idle"
             /\ returned'.op = "handle_incoming"
             /\ returned'.ev = proc[p].ev
             /\ returned'.out = "none"
             /\ returned'.sid = 0
             /\ ~returned'.created
             /\ returned'.disp = None
             /\ ~returned'.msgs
             /\ sessions' = sessions]_vars

\* C10 witness: a synchronous call without status hint has just returned
\* (None, None) from the external-id lookup.
C10_Witness ==
    /\ returned.op = "handle_incoming"
    /\ returned.out = "none"
    /\ ~returned.ev.async
    /\ returned.ev.status = None
    /\ returned.trigger = None
    /\ returned.disp = None

\* C11: a handle_incoming call with a TRIGGERED hint and no trigger found
\* never goes on to a session lookup: the step that starts it returns
\* (None, None) in either dispatch mode, dispatches nothing, creates no
\* session and leaves every stored session and every running call as it was.
C11_NoTriggerNoEffect ==
    [][/\ \A p \in Procs :
             StartsIncoming(p)
                => ~(proc'[p].ev.status = TRIGGERED /\ proc'[p].trigger = None)
       /\ (/\ returned'.op = "handle_incoming"
           /\ returned'.ev.status = TRIGGERED
           /\ returned'.trigger = None)
          => /\ returned'.out = "none"
             /\ returned'.sid = 0
             /\ ~returned'.created
             /\ returned'.disp = None
             /\ ~returned'.msgs
             /\ sessions' = sessions
             /\ proc' = proc]_vars

\* C11 witness: a synchronous TRIGGERED-hinted call without trigger has just
\* returned (None, None) while the subscriber has an initiated push session
\* and a non-terminal session carries the event's external id.
C11_Witness ==
    /\ returned.op = "handle_incoming"
    /\ returned.ev.status = TRIGGERED
    /\ returned.trigger = None
    /\ ~returned.ev.async
    /\ returned.out = "none"
    /\ PushSessions(sessions, returned.ev.contact, {INITIATED}) # {}
    /\ ActiveWithId(sessions, returned.ev.external_id) # {}

\* the step in which a handler call is started
StartsCall == ncalls' = ncalls + 1

\* C12: a handle_interrupt call goes on to close a session only if a
\* non-terminal session carries its external id; called with an id that no
\* non-terminal session carries (none ever did, or all are closed), it
\* returns None in its first step, dispatches nothing and leaves every stored
\* session and every running call as it was.
C12_InterruptUnmatched ==
    [][StartsCall =>
          /\ \A p \in Procs :
                (proc'[p].op = "handle_interrupt" /\ proc[p].pc = "idle")
                   => /\ ActiveWithId(sessions, proc'[p].ev.external_id) # {}
                      /\ proc'[p].sid
                            \in ActiveWithId(sessions, proc'[p].ev.external_id)
          /\ (/\ returned'.op = "handle_interrupt"
              /\ ActiveWithId(sessions, returned'.ev.external_id) = {})
             => /\ returned'.out = "none"
                /\ returned'.sid = 0
                /\ returned'.disp = None
                /\ sessions' = sessions
                /\ proc' = proc]_vars

\* C12 witness: handle_interrupt has just returned None for an external id
\* that only a closed session carries.
C12_Witness ==
    /\ returned.op = "handle_interrupt"
    /\ returned.out = "none"
    /\ returned.disp = None
    /\ ClosedWithId(sessions, returned.ev.external_id) # {}
    /\ ActiveWithId(sessions, returned.ev.external_id) = {}

\* C13: a handle_interrupt call whose external id a non-terminal session
\* carries does not return in its first step; it takes the first such
\* session and, in this order, closes it in one
\* step (the stored status becomes INTERRUPTED, or COMPLETED if the session
\* was ENDING, and ended_on is set; no other row changes; nothing is
\* dispatched yet) and then, in the next step of the call, dispatches one
\* message of empty text for that session through the method of the requested
\* mode and returns the session; the call dispatches in no other step.
C13_InterruptClosesThenDispatches ==
    [][/\ \A p \in Procs :
             /\ (/\ StartsCall
                 /\ proc[p].pc = "idle"
                 /\ proc'[p].op = "handle_interrupt")
                => /\ proc'[p].pc = "int_close"
                   /\ proc'[p].sid = get_session_by_external_id(
                                        sessions, proc'[p].ev.external_id)
                   /\ proc'[p].obj = sessions[proc'[p].sid]
                   /\ returned'.disp = None
                   /\ sessions' = sessions
             /\ Leaves(p, "int_close")
                => /\ proc'[p].pc = "int_dispatch"
                   /\ returned'.disp = None
                   /\ Len(sessions') = Len(sessions)
                   /\ \A i \in Ids(sessions) :
                         i # proc[p].sid => sessions'[i] = sessions[i]
                   /\ sessions'[proc[p].sid].status =
                         IF proc[p].obj.status = ENDING THEN COMPLETED
                                                        ELSE INTERRUPTED
                   /\ sessions'[proc[p].sid].ended_on # None
                   /\ proc'[p].obj.status = sessions'[proc[p].sid].status
             /\ Leaves(p, "int_dispatch")
                => /\ proc'[p].pc = "idle"
                   /\ proc[p].obj.status \in {COMPLETED, INTERRUPTED}
                   /\ proc[p].obj.ended_on # None
                   /\ returned'.op = "handle_interrupt"
                   /\ returned'.out = "session"
                   /\ returned'.sid = proc[p].sid
                   /\ returned'.disp = "message"
                   /\ returned'.text = ""
                   /\ returned'.mode = IF proc[p].ev.async THEN "async"
                                                           ELSE "sync"
                   /\ sessions' = sessions
       /\ (StartsCall /\ returned'.op = "handle_interrupt")
          => ActiveWithId(sessions, returned'.ev.external_id) = {}
       /\ (returned'.op = "handle_interrupt" /\ returned'.disp # None)
          => \E p \in Procs : Leaves(p, "int_dispatch")]_vars

\* C13 witness: a synchronous handle_interrupt has just returned a session
\* that an event without status hint had created IN_PROGRESS; the session is
\* INTERRUPTED with ended_on set and one empty message was dispatched.
C13_Witness ==
    /\ returned.op = "handle_interrupt"
    /\ returned.out = "session"
    /\ ~returned.ev.async
    /\ returned.disp = "message"
    /\ returned.text = ""
    /\ returned.mode = "sync"
    /\ sessions[returned.sid].status = INTERRUPTED
    /\ sessions[returned.sid].ended_on = Now
    /\ sessions[returned.sid].started_on = None
    /\ sessions[returned.sid].external_id = returned.ev.external_id

TriggeredAsync(me) ==
    me.ev.status = TRIGGERED /\ me.ev.async /\ me.trigger # None

\* C16: an asynchronous TRIGGERED-hinted call with a trigger found does not
\* return before its lookups; when the push lookup finds no initiated push
\* session and the external-id lookup no non-terminal session, it goes on to
\* create, and the create adds exactly one row (external id of the event,
\* status TRIGGERED, direction PULL, started_on the event's date, not ended),
\* changes no other row, starts the trigger's flow once and returns
\* (session, None).
C16_TriggeredAsyncCreates ==
    [][/\ \A p \in Procs :
             /\ (/\ StartsIncoming(p)
                 /\ TriggeredAsync(proc'[p])
                 /\ PushSessions(sessions, proc'[p].ev.contact, {INITIATED}) = {})
                => /\ proc'[p].pc = "get"
                   /\ sessions' = sessions
                   /\ returned'.disp = None
             /\ (/\ Leaves(p, "get")
                 /\ TriggeredAsync(proc[p])
                 /\ ActiveWithId(sessions, proc[p].ev.external_id) = {})
                => /\ proc'[p].pc = "create"
                   /\ sessions' = sessions
                   /\ returned'.disp = None
             /\ (Leaves(p, "create") /\ TriggeredAsync(proc[p]))
                => /\ proc'[p].pc = "idle"
                   /\ Len(sessions') = Len(sessions) + 1
                   /\ \A i \in Ids(sessions) : sessions'[i] = sessions[i]
                   /\ sessions'[Len(sessions')] =
                         [external_id |-> proc[p].ev.external_id,
                          contact |-> proc[p].ev.contact,
                          channel |-> proc[p].ev.channel,
                          org |-> ChannelOrg(proc[p].ev.channel),
                          direction |-> USSD_PULL,
                          status |-> TRIGGERED,
                          started_on |-> proc[p].ev.date,
                          ended_on |-> None]
                   /\ returned'.op = "handle_incoming"
                   /\ returned'.ev = proc[p].ev
                   /\ returned'.out = "session"
                   /\ returned'.sid = Len(sessions')
                   /\ returned'.created
                   /\ returned'.disp = "start"
                   /\ returned'.flow = proc[p].trigger
                   /\ returned'.mode = "async"
                   /\ ~returned'.msgs
       /\ (StartsCall /\ returned'.op = "handle_incoming")
          => returned'.trigger = None]_vars

\* C16 witness: an asynchronous TRIGGERED-hinted call has just created the
\* only session of the store, TRIGGERED and PULL, started flow F and returned
\* the session without messages.
C16_Witness ==
    /\ returned.op = "handle_incoming"
    /\ returned.ev.status = TRIGGERED
    /\ returned.ev.async
    /\ returned.trigger = "F"
    /\ returned.created
    /\ returned.disp = "start"
    /\ returned.flow = "F"
    /\ ~returned.msgs
    /\ Len(sessions) = 1
    /\ sessions[returned.sid].status = TRIGGERED
    /\ sessions[returned.sid].direction = USSD_PULL
    /\ sessions[returned.sid].started_on = returned.ev.date
    /\ sessions[returned.sid].external_id = returned.ev.external_id

\* C17: handle_incoming calls that match the same session by external id
\* serialize on its row: no two of them are between lookup and save of one
\* row at once; the lookup hands out the row as stored, non-terminal and
\* carrying the event's id; the save finds the row as the lookup read it and
\* stores that row patched with the event's defaults, changing no other row;
\* so the stored fields are those of the events applied one after the other,
\* and once an INTERRUPTED-hinted event has patched the row it is INTERRUPTED
\* with the event's date and the lookup of a waiting event matches it no more.
C17_RowSerialized ==
    [][\A p \in Procs :
          /\ \A q \in Procs :
                (p # q /\ proc'[p].pc = "patch" /\ proc'[q].pc = "patch")
                   => proc'[p].sid # proc'[q].sid
          /\ (Leaves(p, "get") /\ proc'[p].pc = "patch")
                => /\ proc'[p].obj = sessions[proc'[p].sid]
                   /\ proc'[p].obj.status \notin {COMPLETED, INTERRUPTED}
                   /\ proc'[p].obj.external_id = proc[p].ev.external_id
                   /\ sessions' = sessions
          /\ Leaves(p, "patch")
                => /\ proc[p].obj = sessions[proc[p].sid]
                   /\ Len(sessions') = Len(sessions)
                   /\ \A i \in Ids(sessions) :
                         i # proc[p].sid => sessions'[i] = sessions[i]
                   /\ sessions'[proc[p].sid] =
                         Patch(sessions[proc[p].sid], Defaults(proc[p].ev))
                   /\ returned'.sid = proc[p].sid
          /\ (Leaves(p, "patch") /\ proc[p].ev.status = INTERRUPTED)
                => /\ sessions'[proc[p].sid].status = INTERRUPTED
                   /\ sessions'[proc[p].sid].ended_on = proc[p].ev.date
                   /\ \A q \in Procs :
                         proc'[q].pc = "get"
                            => proc[p].sid \notin LockedLookup(
                                  sessions', proc'[q].ev.external_id)]_vars

\* C17 witness: an INTERRUPTED-hinted event has just patched the session that
\* carries its external id while a second event with the same id, started
\* before the save, is at its lookup; the session is INTERRUPTED and the
\* waiting lookup finds no session.
C17_Witness ==
    /\ returned.op = "handle_incoming"
    /\ returned.path = "match"
    /\ returned.ev.status = INTERRUPTED
    /\ sessions[returned.sid].status = INTERRUPTED
    /\ \E q \in Procs :
          /\ proc[q].pc = "get"
          /\ proc[q].ev.external_id = returned.ev.external_id
          /\ LockedLookup(sessions, proc[q].ev.external_id) = {}

\* the place of a status on the path TRIGGERED, IN_PROGRESS, ENDING, COMPLETED
StatusRank(status) ==
    IF status = TRIGGERED THEN 1
    ELSE IF status = IN_PROGRESS THEN 2
    ELSE IF status = ENDING THEN 3
    ELSE IF status = COMPLETED THEN 4
    ELSE 0

\* C18: a step that changes the stored status of a session created by
\* handle_incoming (push sessions, which start as INITIATED, left aside)
\* changes a non-terminal status, and either to INTERRUPTED or forwards on
\* the path TRIGGERED, IN_PROGRESS, ENDING, COMPLETED: no resume moves a
\* session back to TRIGGERED or from ENDING back to IN_PROGRESS.
C18_StatusNeverMovesBack ==
    [][\A i \in Ids(sessions) :
          (/\ sessions'[i].status # sessions[i].status
           /\ sessions[i].direction # USSD_PUSH)
          => /\ sessions[i].status \notin {COMPLETED, INTERRUPTED}
             /\ \/ sessions'[i].status = INTERRUPTED
                \/ StatusRank(sessions'[i].status) > StatusRank(sessions[i].status)
       ]_vars

\* C19: no step changes the direction, the channel or the organization of a
\* stored session: a resume by external id or of a push session, with any
\* status hint, and every mark_ending and close leave the three fields as
\* they were created; a PUSH session stays PUSH.
C19_OwnershipImmutable ==
    [][\A i \in Ids(sessions) :
          /\ sessions'[i].direction = sessions[i].direction
          /\ sessions'[i].channel = sessions[i].channel
          /\ sessions'[i].org = sessions[i].org]_vars

\* C20: a push session is picked up by the push lookup at most once: the
\* lookup of a call hands out no push session that another call has picked up
\* and not saved yet; the save of the push path leaves the session TRIGGERED,
\* IN_PROGRESS or INTERRUPTED; and a session that is not INITIATED never
\* becomes INITIATED, so the push lookup does not return it again.
C20_PushPickedUpOnce ==
    [][/\ \A p \in Procs :
             /\ (StartsIncoming(p) /\ proc'[p].pc = "push_save")
                => \A q \in Procs \ {p} :
                      ~(proc[q].pc = "push_save" /\ proc[q].sid = proc'[p].sid)
             /\ Leaves(p, "push_save")
                => sessions'[proc[p].sid].status
                      \in {TRIGGERED, IN_PROGRESS, INTERRUPTED}
       /\ \A i \in Ids(sessions) :
             sessions[i].status # INITIATED
                => /\ sessions'[i].status # INITIATED
                   /\ \A contact \in Contacts :
                         get_initiated_push_session(sessions', contact) # i]_vars

====
